---- MODULE Spec2Model ----
(***************************************************************************)
(* Model of the expression calculator of src/src/main.rs: the tokenizer    *)
(* (Calculator::parse), the shunting-yard converter                        *)
(* (Calculator::to_postfix), the postfix evaluator (Calculator::evaluate)  *)
(* and their composition (Calculator::calculate).                          *)
(*                                                                         *)
(* A char is a one-character string, a text a sequence of chars.  An f64   *)
(* is modelled by the exact rational <<num, den>> in lowest terms with     *)
(* den > 0.  Rounding is outside the model: the literals drawn below are   *)
(* small, and the well-formed expressions use the literals 0, 1 and 2,     *)
(* whose sums, products and quotients are exact in binary floating point.  *)
(***************************************************************************)
EXTENDS Integers, Sequences, FiniteSets, TLC

VARIABLES call, expr, tokens, pc, ps, cs, postfix, es, result

vars == <<call, expr, tokens, pc, ps, cs, postfix, es, result>>

----------------------------------------------------------------------------
(* Bounds of the model.                                                    *)

MaxLen == 4

MaxExprLen == 7

MaxToks == 5

----------------------------------------------------------------------------
(* f64 values as exact rationals.                                          *)

Abs(n) == IF n < 0 THEN -n ELSE n

RECURSIVE GCD(_, _)
GCD(a, b) == IF b = 0 THEN a ELSE GCD(b, a % b)

\* A quotient n/d in lowest terms.  A zero denominator is a non-finite f64:
\* <<1, 0>> and <<-1, 0>> the infinities, <<0, 0>> NaN.
Norm(n, d) ==
    LET s == IF d < 0 THEN -1 ELSE 1
        g == GCD(Abs(n), Abs(d))
    IN  IF g = 0 THEN <<0, 0>> ELSE <<(s * n) \div g, (s * d) \div g>>

Zero == <<0, 1>>

----------------------------------------------------------------------------
(* Operator, Token, Error.                                                 *)

Operators == {"Add", "Subtract", "Multiply", "Divide"}

precedence(op) == IF op \in {"Add", "Subtract"} THEN 1 ELSE 2

\* The derived order of Operator: stack_op >= op compares the precedences.
GeStrict(a, b) == precedence(a) > precedence(b)

Ge(a, b) == precedence(a) >= precedence(b)

\* A Result: tag "Ok" with the f64 (val) or the tokens, or the Error's name
\* as tag, with the char a BadToken carries.  None is "no value yet".
Ok(v) == [tag |-> "Ok", val |-> v, ch |-> "_", tokens |-> <<>>]

OkTokens(ts) == [tag |-> "Ok", val |-> Zero, ch |-> "_", tokens |-> ts]

Err(e, c) == [tag |-> e, val |-> Zero, ch |-> c, tokens |-> <<>>]

None == [tag |-> "None", val |-> Zero, ch |-> "_", tokens |-> <<>>]

\* A panic of the thread (Option::unwrap on None).
Panic == [tag |-> "Panic", val |-> Zero, ch |-> "_", tokens |-> <<>>]

\* The zero test of a division: right == 0.0.
IsZeroLeft(left, right) == left = Zero

IsZeroDivisor(left, right) == right = Zero

apply(op, left, right) ==
    CASE op = "Add" ->
            Ok(Norm(left[1] * right[2] + right[1] * left[2], left[2] * right[2]))
      [] op = "Subtract" ->
            Ok(Norm(left[1] * right[2] - right[1] * left[2], left[2] * right[2]))
      [] op = "Multiply" ->
            Ok(Norm(left[1] * right[1], left[2] * right[2]))
      [] op = "Divide" ->
            IF IsZeroDivisor(left, right)
            THEN Err("DivisionByZero", "_")
            ELSE Ok(Norm(left[1] * right[2], left[2] * right[1]))

Number(v) == [kind |-> "Number", val |-> v, sym |-> "_"]

Op(o) == [kind |-> "Op", val |-> Zero, sym |-> o]

Bracket(c) == [kind |-> "Bracket", val |-> Zero, sym |-> c]

----------------------------------------------------------------------------
(* Calculator::parse.                                                      *)

DigitChars == <<"0", "1", "2", "3", "4", "5", "6", "7", "8", "9">>

is_ascii_digit(c) == \E k \in 1..Len(DigitChars) : DigitChars[k] = c

DigitVal(c) == (CHOOSE k \in 1..Len(DigitChars) : DigitChars[k] = c) - 1

RECURSIVE IntVal(_)
IntVal(s) ==
    IF s = <<>> THEN 0
    ELSE IntVal(SubSeq(s, 1, Len(s) - 1)) * 10 + DigitVal(s[Len(s)])

RECURSIVE Pow10(_)
Pow10(k) == IF k = 0 THEN 1 ELSE 10 * Pow10(k - 1)

\* str::parse::<f64> on a run of ASCII digits and '.': the run is a number
\* iff it has at least one digit and at most one '.'.
ParseF64(s) ==
    LET dots == {k \in 1..Len(s) : s[k] = "."}
    IN  IF Cardinality(dots) > 1 \/ Cardinality(dots) = Len(s)
        THEN [ok |-> FALSE, val |-> Zero]
        ELSE IF dots = {}
        THEN [ok |-> TRUE, val |-> Norm(IntVal(s), 1)]
        ELSE LET p == CHOOSE k \in dots : TRUE
                 whole == SubSeq(s, 1, p - 1)
                 frac == SubSeq(s, p + 1, Len(s))
             IN  [ok |-> TRUE,
                  val |-> Norm(IntVal(whole) * Pow10(Len(frac)) + IntVal(frac),
                               Pow10(Len(frac)))]

\* The inner scan: the first j >= i with j = chars.len() or chars[j] neither
\* a digit nor '.' (indices are 0-based as in the source).
RECURSIVE ScanEnd(_, _)
ScanEnd(chars, j) ==
    IF j < Len(chars) /\ (is_ascii_digit(chars[j + 1]) \/ chars[j + 1] = ".")
    THEN ScanEnd(chars, j + 1)
    ELSE j

\* The match arm that starts a number: '0'..='9'.
StartsNumberOrDot(c) == is_ascii_digit(c) \/ c = "."

StartsNumber(c) == is_ascii_digit(c)

\* The match arm that skips: ' ' | '\t' | '\n'.
IsSkippedNever(c) == FALSE

IsSkipped(c) == c \in {" ", "\t", "\n"}

\* The character a BadToken of the catch-all arm carries.
BadTokenBlank(c) == Err("BadToken", "_")

BadTokenOf(c) == Err("BadToken", c)

InitParse == [i |-> 0, tokens |-> <<>>, parens |-> <<>>, ret |-> None]

\* One iteration of the while loop over chars.
ParseIter(chars, st) ==
    LET c == chars[st.i + 1]
    IN  IF StartsNumber(c)
        THEN LET j == ScanEnd(chars, st.i)
                 num == ParseF64(SubSeq(chars, st.i + 1, j))
             IN  IF num.ok
                 THEN [st EXCEPT !.tokens = Append(@, Number(num.val)),
                                 !.i = (j - 1) + 1]
                 ELSE [st EXCEPT !.ret = Err("BadToken", c)]
        ELSE IF c = "("
        THEN [st EXCEPT !.tokens = Append(@, Bracket("(")),
                        !.parens = Append(@, c),
                        !.i = @ + 1]
        ELSE IF c = ")"
        THEN IF st.parens # <<>>
             THEN IF st.parens[Len(st.parens)] # "("
                  THEN [st EXCEPT !.tokens = Append(@, Bracket(")")),
                                  !.parens = SubSeq(@, 1, Len(@) - 1),
                                  !.ret = Err("MismatchedParens", "_")]
                  ELSE [st EXCEPT !.tokens = Append(@, Bracket(")")),
                                  !.parens = SubSeq(@, 1, Len(@) - 1),
                                  !.i = @ + 1]
             ELSE [st EXCEPT !.tokens = Append(@, Bracket(")")),
                             !.ret = Err("MismatchedParens", "_")]
        ELSE IF c = "+" THEN [st EXCEPT !.tokens = Append(@, Op("Add")), !.i = @ + 1]
        ELSE IF c = "-" THEN [st EXCEPT !.tokens = Append(@, Op("Subtract")), !.i = @ + 1]
        ELSE IF c = "*" THEN [st EXCEPT !.tokens = Append(@, Op("Multiply")), !.i = @ + 1]
        ELSE IF c = "/" THEN [st EXCEPT !.tokens = Append(@, Op("Divide")), !.i = @ + 1]
        ELSE IF IsSkipped(c) THEN [st EXCEPT !.i = @ + 1]
        ELSE [st EXCEPT !.ret = BadTokenOf(c)]

ParseRunning(chars, st) == st.ret = None /\ st.i < Len(chars)

\* The check after the loop: unclosed '(' are mismatched.
UnclosedIgnored(st) == FALSE

Unclosed(st) == st.parens # <<>>

\* What parse returns once the loop has ended.
ParseReturn(st) ==
    IF st.ret # None THEN st.ret
    ELSE IF Unclosed(st) THEN Err("MismatchedParens", "_")
    ELSE OkTokens(st.tokens)

RECURSIVE ParseRun(_, _)
ParseRun(chars, st) ==
    IF ParseRunning(chars, st) THEN ParseRun(chars, ParseIter(chars, st)) ELSE st

parse(chars) == ParseReturn(ParseRun(chars, InitParse))

----------------------------------------------------------------------------
(* Calculator::to_postfix.                                                 *)

Last(s) == s[Len(s)]

Front(s) == SubSeq(s, 1, Len(s) - 1)

RECURSIVE Reverse(_)
Reverse(s) == IF s = <<>> THEN <<>> ELSE Append(Reverse(Tail(s)), Head(s))

\* stack.pop().unwrap(): the popped token, or a panic on an empty stack.
PopUnwrap(s) ==
    IF s = <<>> THEN [panic |-> TRUE, rest |-> <<>>]
    ELSE [panic |-> FALSE, rest |-> Front(s)]

\* stack.pop() with the Option dropped: nothing happens on an empty stack.
PopDiscard(s) ==
    IF s = <<>> THEN [panic |-> FALSE, rest |-> <<>>]
    ELSE [panic |-> FALSE, rest |-> Front(s)]

\* tokens.reverse() and the two empty vectors.
InitConv(toks) ==
    [tokens |-> Reverse(toks), queue |-> <<>>, stack |-> <<>>, panic |-> FALSE]

\* queue.push(stack.pop().unwrap())
MoveTop(st) ==
    LET p == PopUnwrap(st.stack)
    IN  IF p.panic THEN [st EXCEPT !.panic = TRUE]
        ELSE [st EXCEPT !.queue = Append(@, Last(st.stack)), !.stack = p.rest]

\* The loop of the Op arm: pop the operators that do not bind looser.
RECURSIVE PopOps(_, _)
PopOps(st, op) ==
    IF ~st.panic /\ st.stack # <<>> /\ Last(st.stack).kind = "Op"
       /\ Ge(Last(st.stack).sym, op)
    THEN PopOps(MoveTop(st), op)
    ELSE st

\* The loop of the ')' arm: pop until the top is '(' or the stack is empty.
RECURSIVE PopToParen(_)
PopToParen(st) ==
    IF ~st.panic /\ st.stack # <<>> /\ Last(st.stack) # Bracket("(")
    THEN PopToParen(MoveTop(st))
    ELSE st

\* What the ')' arm does after its loop: stack.pop().
CloseKeep(st) == st

CloseUnwrap(st) ==
    LET p == PopUnwrap(st.stack)
    IN  IF p.panic THEN [st EXCEPT !.panic = TRUE] ELSE [st EXCEPT !.stack = p.rest]

Close(st) == [st EXCEPT !.stack = PopDiscard(st.stack).rest]

\* One iteration of while let Some(token) = tokens.pop().
ConvIter(st0) ==
    LET token == Last(st0.tokens)
        st == [st0 EXCEPT !.tokens = Front(@)]
    IN  IF token.kind = "Number" THEN [st EXCEPT !.queue = Append(@, token)]
        ELSE IF token.kind = "Op"
        THEN LET popped == PopOps(st, token.sym)
             IN  IF popped.panic THEN popped
                 ELSE [popped EXCEPT !.stack = Append(@, token)]
        ELSE IF token = Bracket("(") THEN [st EXCEPT !.stack = Append(@, token)]
        ELSE IF token = Bracket(")")
        THEN LET popped == PopToParen(st)
             IN  IF popped.panic THEN popped ELSE Close(popped)
        ELSE st

ConvRunning(st) == ~st.panic /\ st.tokens # <<>>

\* The loop after the tokens: move what is left on the stack to the queue.
RECURSIVE Drain(_)
Drain(st) ==
    IF ~st.panic /\ st.stack # <<>> THEN Drain(MoveTop(st)) ELSE st

RECURSIVE ConvRun(_)
ConvRun(st) == IF ConvRunning(st) THEN ConvRun(ConvIter(st)) ELSE st

\* The final state of to_postfix(tokens); its queue is what is returned.
to_postfix(toks) == Drain(ConvRun(InitConv(toks)))

----------------------------------------------------------------------------
(* Calculator::evaluate.                                                   *)

InitEval(toks) == [tokens |-> toks, stack |-> <<>>, ret |-> None]

\* One iteration of for token in tokens.
EvalIter(st0) ==
    LET token == Head(st0.tokens)
        st == [st0 EXCEPT !.tokens = Tail(@)]
    IN  IF token.kind = "Number" THEN [st EXCEPT !.stack = Append(@, token.val)]
        ELSE IF token.kind = "Op"
        THEN IF Len(st.stack) < 2
             THEN [st EXCEPT !.ret = Err("InvalidExpression", "_")]
             ELSE LET right == st.stack[Len(st.stack)]
                      left == st.stack[Len(st.stack) - 1]
                      r == apply(token.sym, left, right)
                  IN  IF r.tag # "Ok" THEN [st EXCEPT !.ret = r]
                      ELSE [st EXCEPT
                              !.stack = Append(SubSeq(@, 1, Len(@) - 2), r.val)]
        ELSE [st EXCEPT !.ret = Err("InvalidExpression", "_")]

EvalRunning(st) == st.ret = None /\ st.tokens # <<>>

\* What evaluate returns once the loop has ended.
EvalReturn(st) ==
    IF st.ret # None THEN st.ret
    ELSE IF Len(st.stack) = 1 THEN Ok(st.stack[1])
    ELSE Err("InvalidExpression", "_")

RECURSIVE EvalRun(_)
EvalRun(st) == IF EvalRunning(st) THEN EvalRun(EvalIter(st)) ELSE st

evaluate(toks) == EvalReturn(EvalRun(InitEval(toks)))

----------------------------------------------------------------------------
(* Calculator::calculate.                                                  *)

\* The ? on parse's result: an Err returns from calculate at once.
PropagatesNever(r) == FALSE

Propagates(r) == r.tag # "Ok"

calculate(chars) ==
    LET r == parse(chars)
    IN  IF Propagates(r) THEN r
        ELSE LET c == to_postfix(r.tokens)
             IN  IF c.panic THEN Panic ELSE evaluate(c.queue)

----------------------------------------------------------------------------
(* The inputs.                                                             *)

Alphabet == {"0", "1", ".", "(", ")", "+", "/", " ", "@"}

Texts == UNION {[1..n -> Alphabet] : n \in 0..MaxLen}

Idle ==
    /\ ps = InitParse
    /\ cs = InitConv(<<>>)
    /\ postfix = <<>>
    /\ es = InitEval(<<>>)
    /\ result = None

\* calculate(expr) is called on any text over the alphabet.
Init ==
    /\ call = "calculate"
    /\ expr \in Texts
    /\ tokens = <<>>
    /\ pc = "parse"
    /\ Idle

----------------------------------------------------------------------------
(* The steps.                                                              *)

ParseLoop ==
    /\ pc = "parse"
    /\ ParseRunning(expr, ps)
    /\ ps' = ParseIter(expr, ps)
    /\ UNCHANGED <<call, expr, tokens, pc, cs, postfix, es, result>>

\* parse returns; calculate stops on an Err and otherwise binds tokens and
\* enters to_postfix.
ParseEnd ==
    /\ pc = "parse"
    /\ ~ParseRunning(expr, ps)
    /\ LET r == ParseReturn(ps)
       IN  IF Propagates(r)
           THEN /\ result' = r
                /\ pc' = "done"
                /\ UNCHANGED <<tokens, cs>>
           ELSE /\ result' = result
                /\ pc' = "to_postfix"
                /\ tokens' = r.tokens
                /\ cs' = InitConv(r.tokens)
    /\ UNCHANGED <<call, expr, ps, postfix, es>>

PostfixLoop ==
    /\ pc = "to_postfix"
    /\ ConvRunning(cs)
    /\ cs' = ConvIter(cs)
    /\ pc' = IF cs'.panic THEN "done" ELSE pc
    /\ result' = IF cs'.panic THEN Panic ELSE result
    /\ UNCHANGED <<call, expr, tokens, ps, postfix, es>>

\* to_postfix drains the stack and returns the queue; calculate enters
\* evaluate with it.
PostfixEnd ==
    /\ pc = "to_postfix"
    /\ ~ConvRunning(cs)
    /\ LET d == Drain(cs)
       IN  /\ cs' = d
           /\ IF d.panic
              THEN /\ result' = Panic
                   /\ pc' = "done"
                   /\ UNCHANGED <<postfix, es>>
              ELSE /\ postfix' = d.queue
                   /\ IF call = "to_postfix"
                      THEN /\ result' = OkTokens(d.queue)
                           /\ pc' = "done"
                           /\ es' = es
                      ELSE /\ result' = result
                           /\ pc' = "evaluate"
                           /\ es' = InitEval(d.queue)
    /\ UNCHANGED <<call, expr, tokens, ps>>

EvalLoop ==
    /\ pc = "evaluate"
    /\ EvalRunning(es)
    /\ es' = EvalIter(es)
    /\ UNCHANGED <<call, expr, tokens, pc, ps, cs, postfix, result>>

EvalEnd ==
    /\ pc = "evaluate"
    /\ ~EvalRunning(es)
    /\ result' = EvalReturn(es)
    /\ pc' = "done"
    /\ UNCHANGED <<call, expr, tokens, ps, cs, postfix, es>>

Next == ParseLoop \/ ParseEnd \/ PostfixLoop \/ PostfixEnd \/ EvalLoop \/ EvalEnd

Spec == Init /\ [][Next]_vars

----------------------------------------------------------------------------
(* calculate on well-formed expressions: literals of one digit, the four   *)
(* operators and parentheses, of at most MaxExprLen characters.            *)

LitChars == {"0", "1", "2"}

OpChars == {"+", "-", "*", "/"}

RECURSIVE ExprsOfLen(_)
ExprsOfLen(n) ==
    IF n < 1 THEN {}
    ELSE IF n = 1 THEN {<<d>> : d \in LitChars}
    ELSE {<<"(">> \o e \o <<")">> : e \in ExprsOfLen(n - 2)}
         \cup UNION {{a \o <<o>> \o b :
                        a \in ExprsOfLen(k), o \in OpChars, b \in ExprsOfLen(n - 1 - k)} :
                     k \in 1..(n - 2)}

ExprTexts == UNION {ExprsOfLen(n) : n \in 1..MaxExprLen}

InitExpr ==
    /\ call = "calculate"
    /\ expr \in ExprTexts
    /\ tokens = <<>>
    /\ pc = "parse"
    /\ Idle

SpecExpr == InitExpr /\ [][Next]_vars

----------------------------------------------------------------------------
(* to_postfix called on its own, on any token sequence of at most MaxToks  *)
(* tokens, whether or not a tokenizer would produce it.                    *)

One == <<1, 1>>

Two == <<2, 1>>

TokenAlphabet ==
    {Number(One), Number(Two), Op("Add"), Op("Multiply"),
     Bracket("("), Bracket(")"), Bracket("[")}

TokenSeqs == UNION {[1..n -> TokenAlphabet] : n \in 0..MaxToks}

InitPostfix ==
    /\ call = "to_postfix"
    /\ expr = <<>>
    /\ tokens \in TokenSeqs
    /\ pc = "to_postfix"
    /\ ps = InitParse
    /\ cs = InitConv(tokens)
    /\ postfix = <<>>
    /\ es = InitEval(<<>>)
    /\ result = None

NextPostfix == PostfixLoop \/ PostfixEnd

SpecPostfix == InitPostfix /\ [][NextPostfix]_vars

----------------------------------------------------------------------------
(* Vocabulary of the properties, stated on the text itself.                *)

\* parse has left its loop and is about to return ParseReturn(ps).
ParseDone == pc = "parse" /\ ~ParseRunning(expr, ps)

RunChar(c) == is_ascii_digit(c) \/ c = "."

Blank(c) == c \in {" ", "\t", "\n"}

Known(c) == RunChar(c) \/ Blank(c) \/ c \in {"(", ")", "+", "-", "*", "/"}

\* '(' minus ')' among the first k characters.
Depth(s, k) ==
    Cardinality({j \in 1..k : s[j] = "("}) - Cardinality({j \in 1..k : s[j] = ")"})

BalancedText(s) ==
    /\ \A k \in 1..Len(s) : Depth(s, k) >= 0
    /\ Depth(s, Len(s)) = 0

\* k starts a maximal run of digits and '.'.
RunStart(s, k) == RunChar(s[k]) /\ (k = 1 \/ ~RunChar(s[k - 1]))

\* The last position of the maximal run that holds position k.
RECURSIVE RunLast(_, _)
RunLast(s, k) ==
    IF k < Len(s) /\ RunChar(s[k + 1]) THEN RunLast(s, k + 1) ELSE k

\* The run starting at k is a literal the tokenizer takes: it starts with a
\* digit and has at most one '.'.
GoodRun(s, k) ==
    /\ is_ascii_digit(s[k])
    /\ Cardinality({j \in k..RunLast(s, k) : s[j] = "."}) <= 1

\* Nothing among the first n characters makes the tokenizer fail: known
\* characters, number literals it takes, no ')' without a pending '('.
CleanPrefix(s, n) ==
    /\ \A k \in 1..n : Known(s[k])
    /\ \A k \in 1..n : RunStart(s, k) => GoodRun(s, k)
    /\ \A k \in 1..n : Depth(s, k) >= 0

\* '(' minus ')' among the first k tokens.
TokDepth(ts, k) ==
    Cardinality({j \in 1..k : ts[j] = Bracket("(")})
    - Cardinality({j \in 1..k : ts[j] = Bracket(")")})

BalancedTokens(ts) ==
    /\ \A k \in 1..Len(ts) : TokDepth(ts, k) >= 0
    /\ TokDepth(ts, Len(ts)) = 0

----------------------------------------------------------------------------
\* C3: on a text of known characters whose number literals are valid, parse
\* fails with MismatchedParens iff the brackets are unbalanced; an unmatched
\* ')' is detected at that ')', and the tokens of an Ok result have balanced
\* brackets: no prefix with more ')' than '(' and equally many in all.
C3_MismatchedIffUnbalanced ==
    ParseDone =>
        LET r == ParseReturn(ps)
            clean == /\ \A k \in 1..Len(expr) : Known(expr[k])
                     /\ \A k \in 1..Len(expr) : RunStart(expr, k) => GoodRun(expr, k)
        IN  /\ clean => (r.tag = "MismatchedParens" <=> ~BalancedText(expr))
            /\ clean => (r.tag = "Ok" <=> BalancedText(expr))
            /\ clean =>
                 \A k \in 1..Len(expr) :
                    (Depth(expr, k) < 0 /\ \A j \in 1..(k - 1) : Depth(expr, j) >= 0)
                        => (r.tag = "MismatchedParens" /\ ps.i = k - 1)
            /\ r.tag = "Ok" => BalancedTokens(r.tokens)

\* An unclosed '(' after a number, found at the end of the input.
C3_Witness ==
    /\ ParseDone
    /\ CleanPrefix(expr, Len(expr))
    /\ Depth(expr, Len(expr)) > 0
    /\ \E k \in 1..Len(expr) : is_ascii_digit(expr[k])
    /\ ps.i = Len(expr)
    /\ ParseReturn(ps).tag = "MismatchedParens"

\* C4: when the first failure of the scan is at an unknown character (the
\* text before it is clean), parse and calculate fail with BadToken carrying
\* that character, whatever follows and whatever '(' are open.
C4_BadTokenCarriesChar ==
    \A k \in 1..Len(expr) :
        (~Known(expr[k]) /\ CleanPrefix(expr, k - 1)) =>
            /\ ParseDone => ParseReturn(ps) = Err("BadToken", expr[k])
            /\ pc = "done" => result = Err("BadToken", expr[k])
            /\ pc \in {"parse", "done"}

\* An unknown character with a '(' still open before it and text after it.
C4_Witness ==
    /\ pc = "done"
    /\ \E k \in 2..(Len(expr) - 1) :
          /\ ~Known(expr[k])
          /\ CleanPrefix(expr, k - 1)
          /\ Depth(expr, k - 1) > 0
          /\ result = Err("BadToken", expr[k])

----------------------------------------------------------------------------
\* The first run of digits and '.' of the text, when only blanks, operators
\* and '(' come before it: k is its first position.
FirstRun(s, k) ==
    /\ RunStart(s, k)
    /\ \A j \in 1..(k - 1) : Blank(s[j]) \/ s[j] \in {"(", "+", "-", "*", "/"}

\* The number of tokens the characters before position k stand for.
TokensBefore(s, k) == Cardinality({j \in 1..(k - 1) : ~Blank(s[j])})

\* C6 as stated: a literal that begins with '.' and is a valid decimal is
\* scanned as one run and emitted as a single Number token.
C6_DotStartsNumber ==
    ParseDone =>
        \A k \in 1..Len(expr) :
            (/\ FirstRun(expr, k)
             /\ expr[k] = "."
             /\ ParseF64(SubSeq(expr, k, RunLast(expr, k))).ok)
            => /\ Len(ps.tokens) > TokensBefore(expr, k)
               /\ ps.tokens[TokensBefore(expr, k) + 1]
                    = Number(ParseF64(SubSeq(expr, k, RunLast(expr, k))).val)

\* C6 amended: the number scan starts on an ASCII digit only.  A run that
\* starts with a digit and has at most one '.' is consumed whole and emitted
\* as a single Number token; a run that starts with '.' fails with
\* BadToken('.'), also when it is a valid decimal such as '.5'.
C6_DigitStartsNumber ==
    ParseDone =>
        \A k \in 1..Len(expr) :
            FirstRun(expr, k) =>
                LET last == RunLast(expr, k)
                    num == ParseF64(SubSeq(expr, k, last))
                    n == TokensBefore(expr, k)
                IN  /\ expr[k] = "." =>
                          /\ ParseReturn(ps) = Err("BadToken", ".")
                          /\ ps.i = k - 1
                          /\ Len(ps.tokens) = n
                    /\ (is_ascii_digit(expr[k]) /\ num.ok) =>
                          /\ Len(ps.tokens) > n
                          /\ ps.tokens[n + 1] = Number(num.val)
                          /\ ps.i >= last
                          /\ (Len(ps.tokens) > n + 1 /\ last < Len(expr)
                                /\ ~Blank(expr[last + 1]))
                               => ps.tokens[n + 2].kind # "Number"

\* A valid decimal that begins with '.', after an operator, is refused.
C6_Witness ==
    /\ ParseDone
    /\ \E k \in 2..(Len(expr) - 1) :
          /\ FirstRun(expr, k)
          /\ expr[k] = "."
          /\ is_ascii_digit(expr[k + 1])
          /\ ParseF64(SubSeq(expr, k, RunLast(expr, k))).ok
          /\ ParseReturn(ps) = Err("BadToken", ".")

----------------------------------------------------------------------------
\* The text without its k-th character, and with w put after its k-th.
Remove(s, k) == SubSeq(s, 1, k - 1) \o SubSeq(s, k + 1, Len(s))

Insert(s, k, w) == SubSeq(s, 1, k) \o <<w>> \o SubSeq(s, k + 1, Len(s))

\* Position k lies between two characters of runs of digits and '.'.
InsideRun(s, k) == k >= 1 /\ k < Len(s) /\ RunChar(s[k]) /\ RunChar(s[k + 1])

\* The blank at k is all that separates two such characters.
JoinsRuns(s, k) == k > 1 /\ k < Len(s) /\ RunChar(s[k - 1]) /\ RunChar(s[k + 1])

\* Whether parse and calculate of t give what they give on expr.
SameOutcome(t) ==
    /\ ParseDone => parse(t) = ParseReturn(ps)
    /\ pc = "done" => calculate(t) = result

\* C7 as stated: removing any blank, or inserting one anywhere but inside a
\* run of digits and '.', leaves the outcome of parse and calculate as it is.
C7_BlanksIgnored ==
    (ParseDone \/ pc = "done") =>
        /\ \A k \in 1..Len(expr) : Blank(expr[k]) => SameOutcome(Remove(expr, k))
        /\ \A k \in 0..Len(expr) : \A w \in {" ", "\t", "\n"} :
              ~InsideRun(expr, k) => SameOutcome(Insert(expr, k, w))

\* C7 amended: removing a blank that is not the only separator of two runs
\* of digits and '.', or inserting one anywhere but inside such a run,
\* leaves the outcome of parse and calculate as it is.
C7_BlanksBetweenRunsKept ==
    (ParseDone \/ pc = "done") =>
        /\ \A k \in 1..Len(expr) :
              (Blank(expr[k]) /\ ~JoinsRuns(expr, k)) => SameOutcome(Remove(expr, k))
        /\ \A k \in 0..Len(expr) : \A w \in {" ", "\t", "\n"} :
              ~InsideRun(expr, k) => SameOutcome(Insert(expr, k, w))

\* A computed value that a leading and an inner blank leave unchanged.
C7_Witness ==
    /\ pc = "done"
    /\ result.tag = "Ok"
    /\ Len(expr) >= 4
    /\ Blank(expr[1])
    /\ \E k \in 3..(Len(expr) - 1) : Blank(expr[k]) /\ ~JoinsRuns(expr, k)
    /\ calculate(Remove(expr, 1)) = result

----------------------------------------------------------------------------
\* C8: calculate returns parse's error whenever parse fails, and conversion
\* and evaluation have not run; DivisionByZero and InvalidExpression come
\* only with texts parse accepts; a text with an unknown character or an
\* unmatched ')' never yields an evaluator error or a number.
C8_EarliestStageError ==
    pc = "done" =>
        LET r == ParseReturn(ParseRun(expr, InitParse))
        IN  /\ r.tag # "Ok" =>
                 /\ result = r
                 /\ result.tag \in {"BadToken", "MismatchedParens"}
                 /\ tokens = <<>> /\ cs = InitConv(<<>>)
                 /\ postfix = <<>> /\ es = InitEval(<<>>)
            /\ result.tag \in {"DivisionByZero", "InvalidExpression"} => r.tag = "Ok"
            /\ ((\E k \in 1..Len(expr) : ~Known(expr[k]) \/ Depth(expr, k) < 0)
                  => result.tag \in {"BadToken", "MismatchedParens"})

\* A division by zero followed by an unknown character: the tokenizer's
\* error is returned.
C8_Witness ==
    /\ pc = "done"
    /\ \E k \in 1..(Len(expr) - 2) :
          /\ expr[k] = "/" /\ expr[k + 1] = "0" /\ ~Known(expr[k + 2])
          /\ k > 1 /\ is_ascii_digit(expr[k - 1])
    /\ result.tag = "BadToken"

----------------------------------------------------------------------------
(* Infix expressions by the standard rules, read by recursive descent:     *)
(*    Sum ::= Product (("+" | "-") Product)*                               *)
(*    Product ::= Atom (("*" | "/") Atom)*                                 *)
(*    Atom ::= Number | "(" Sum ")"                                        *)
(* A reading is [ok, pos, val, dbz]: whether a phrase was read, the next   *)
(* position, its value, and whether a division in it has a divisor that    *)
(* evaluates to zero (val is then of no account).                          *)

NoReading == [ok |-> FALSE, pos |-> 0, val |-> Zero, dbz |-> FALSE]

StdArith(o, a, b) ==
    CASE o = "Add" -> Norm(a[1] * b[2] + b[1] * a[2], a[2] * b[2])
      [] o = "Subtract" -> Norm(a[1] * b[2] - b[1] * a[2], a[2] * b[2])
      [] o = "Multiply" -> Norm(a[1] * b[1], a[2] * b[2])
      [] o = "Divide" -> Norm(a[1] * b[2], a[2] * b[1])

\* The reading of "l o r" from the readings of l and r.
Combine(o, l, r) ==
    LET dbz == l.dbz \/ r.dbz \/ (o = "Divide" /\ r.val[1] = 0)
    IN  [ok |-> TRUE, pos |-> r.pos, dbz |-> dbz,
         val |-> IF dbz THEN Zero ELSE StdArith(o, l.val, r.val)]

IsOpOf(ts, p, class) == p <= Len(ts) /\ ts[p].kind = "Op" /\ ts[p].sym \in class

RECURSIVE ReadSum(_, _)
RECURSIVE ReadSumRest(_, _)
RECURSIVE ReadProduct(_, _)
RECURSIVE ReadProductRest(_, _)
RECURSIVE ReadAtom(_, _)

ReadAtom(ts, p) ==
    IF p > Len(ts) THEN NoReading
    ELSE IF ts[p].kind = "Number"
    THEN [ok |-> TRUE, pos |-> p + 1, val |-> ts[p].val, dbz |-> FALSE]
    ELSE IF ts[p] = Bracket("(")
    THEN LET e == ReadSum(ts, p + 1)
         IN  IF e.ok /\ e.pos <= Len(ts) /\ ts[e.pos] = Bracket(")")
             THEN [e EXCEPT !.pos = @ + 1]
             ELSE NoReading
    ELSE NoReading

ReadProductRest(ts, l) ==
    IF IsOpOf(ts, l.pos, {"Multiply", "Divide"})
    THEN LET r == ReadAtom(ts, l.pos + 1)
         IN  IF r.ok THEN ReadProductRest(ts, Combine(ts[l.pos].sym, l, r))
             ELSE NoReading
    ELSE l

ReadProduct(ts, p) ==
    LET l == ReadAtom(ts, p) IN IF l.ok THEN ReadProductRest(ts, l) ELSE NoReading

ReadSumRest(ts, l) ==
    IF IsOpOf(ts, l.pos, {"Add", "Subtract"})
    THEN LET r == ReadProduct(ts, l.pos + 1)
         IN  IF r.ok THEN ReadSumRest(ts, Combine(ts[l.pos].sym, l, r))
             ELSE NoReading
    ELSE l

ReadSum(ts, p) ==
    LET l == ReadProduct(ts, p) IN IF l.ok THEN ReadSumRest(ts, l) ELSE NoReading

\* The reading of the whole sequence; not ok unless all of it is one Sum.
Standard(ts) ==
    LET e == ReadSum(ts, 1)
    IN  IF e.ok /\ e.pos = Len(ts) + 1 THEN e ELSE NoReading

WellFormed(ts) == Standard(ts).ok

\* The lexemes of a text of one-digit literals, operators and parentheses,
\* character by character.
LexemeOf(c) ==
    IF is_ascii_digit(c) THEN Number(<<DigitVal(c), 1>>)
    ELSE IF c = "+" THEN Op("Add")
    ELSE IF c = "-" THEN Op("Subtract")
    ELSE IF c = "*" THEN Op("Multiply")
    ELSE IF c = "/" THEN Op("Divide")
    ELSE Bracket(c)

Lexemes(s) == [k \in 1..Len(s) |-> LexemeOf(s[k])]

----------------------------------------------------------------------------
\* C5: calculate fails with InvalidExpression, and returns no number, on
\* every text that parse accepts whose tokens are not a well-formed infix
\* expression.
C5_MalformedRejected ==
    (pc = "done" /\ parse(expr).tag = "Ok" /\ ~WellFormed(parse(expr).tokens))
        => result = Err("InvalidExpression", "_")

----------------------------------------------------------------------------
\* C1: on a well-formed infix expression in which no divisor evaluates to
\* zero, calculate returns Ok with the value of the standard reading: * and /
\* bind tighter than + and -, equal precedence groups left to right, and
\* parentheses override both.
C1_StandardValue ==
    pc = "done" =>
        LET std == Standard(Lexemes(expr))
        IN  /\ std.ok
            /\ ~std.dbz => result = Ok(std.val)

\* A quotient by a parenthesised difference, whose value is not that of the
\* same text without the parentheses.
C1_Witness ==
    /\ pc = "done"
    /\ Len(expr) = 7
    /\ expr[2] = "/" /\ expr[3] = "(" /\ expr[5] = "-" /\ expr[7] = ")"
    /\ result.tag = "Ok"
    /\ result.val = Standard(Lexemes(expr)).val
    /\ result.val # Standard(Lexemes(<<expr[1], expr[2], expr[4], expr[5], expr[6]>>)).val

\* C2: on a well-formed infix expression, calculate fails with
\* DivisionByZero iff some division in it has a right operand that evaluates
\* to zero; no number is returned then, and a division by a non-zero right
\* operand never gives DivisionByZero, whatever its left operand.
C2_DivisionByZeroIff ==
    pc = "done" =>
        LET std == Standard(Lexemes(expr))
        IN  /\ result.tag = "DivisionByZero" <=> std.dbz
            /\ std.dbz => result = Err("DivisionByZero", "_")
            /\ ~std.dbz => result.tag = "Ok"

\* A division by a parenthesised operand that evaluates to zero without
\* holding a literal 0.
C2_Witness ==
    /\ pc = "done"
    /\ \E k \in 2..(Len(expr) - 1) : expr[k] = "/" /\ expr[k + 1] = "("
    /\ \A k \in 1..Len(expr) : expr[k] # "0"
    /\ result = Err("DivisionByZero", "_")

----------------------------------------------------------------------------
IsNumber(t) == t.kind = "Number"

IsBracket(t) == t.kind = "Bracket"

Count(ts, t) == Cardinality({k \in 1..Len(ts) : ts[k] = t})

\* The next token is a ')' and the operator stack holds no '('.
AtUnmatchedClose ==
    /\ pc = "to_postfix"
    /\ ConvRunning(cs)
    /\ Last(cs.tokens) = Bracket(")")
    /\ \A k \in 1..Len(cs.stack) : cs.stack[k] # Bracket("(")

\* What is left to do in to_postfix: the tokens to take, and the return.
Remaining == Len(cs.tokens) + (IF pc = "done" THEN 0 ELSE 1)

\* C9: to_postfix has no failure path.  On every finite token sequence,
\* tokenizer-made or not, no unwrap meets an empty stack; the conversion
\* ends, since until it has returned it is in its loop (where PostfixLoop or
\* PostfixEnd can step, their guards being complementary) and every step
\* lessens what remains, and it returns a token sequence; and a ')'
\* met while the operator stack holds no '(' moves the whole stack to the
\* output, top first, after which the conversion goes on.
C9_ToPostfixTotal ==
    /\ [](~cs.panic /\ result.tag # "Panic")
    /\ [](pc \in {"to_postfix", "done"})
    /\ [](pc = "done" => result = OkTokens(postfix) /\ cs.tokens = <<>>)
    /\ [][Remaining' < Remaining]_vars
    /\ [][AtUnmatchedClose =>
            /\ cs'.stack = <<>>
            /\ cs'.queue = cs.queue \o Reverse(cs.stack)
            /\ cs'.tokens = Front(cs.tokens)
            /\ pc' = "to_postfix"]_vars

\* A finished conversion of a sequence whose ')' came with operators but no
\* '(' on the stack, followed by more tokens, one of them a foreign bracket.
C9_Witness ==
    /\ pc = "done"
    /\ result = OkTokens(postfix)
    /\ \E k \in 2..(Len(tokens) - 1) :
          /\ tokens[k] = Bracket(")")
          /\ TokDepth(tokens, k) < 0
          /\ tokens[k - 1].kind = "Op"
    /\ \E k \in 1..Len(tokens) : tokens[k] = Bracket("[")
    /\ postfix # <<>>

\* C10: for a token sequence with balanced brackets, the operator stack
\* holds only Op and '(' tokens at every step, and the output has no
\* Bracket, holds each Number and Op token as often as the input does
\* (its length is the input's minus the brackets), and keeps the Number
\* tokens in the input's order.
C10_PostfixRearranges ==
    BalancedTokens(tokens) =>
        /\ \A k \in 1..Len(cs.stack) :
              cs.stack[k].kind = "Op" \/ cs.stack[k] = Bracket("(")
        /\ pc = "done" =>
              /\ \A k \in 1..Len(postfix) : ~IsBracket(postfix[k])
              /\ Len(postfix) = Len(tokens) - Len(SelectSeq(tokens, IsBracket))
              /\ \A k \in 1..Len(tokens) :
                    ~IsBracket(tokens[k]) => Count(postfix, tokens[k]) = Count(tokens, tokens[k])
              /\ SelectSeq(postfix, IsNumber) = SelectSeq(tokens, IsNumber)

\* A balanced sequence with parentheses, two different numbers and an
\* operator, whose output is not the input without its brackets.
C10_Witness ==
    /\ pc = "done"
    /\ BalancedTokens(tokens)
    /\ Count(tokens, Bracket("(")) > 0
    /\ Count(tokens, Number(One)) > 0
    /\ Count(tokens, Number(Two)) > 0
    /\ \E k \in 1..Len(tokens) : tokens[k].kind = "Op"
    /\ postfix # SelectSeq(tokens, LAMBDA t : ~IsBracket(t))
    /\ Len(postfix) = Len(tokens) - Len(SelectSeq(tokens, IsBracket))

====
